---- MODULE Spec2Model ----
(***************************************************************************)
(* Model of scripts/add_copyright.py: the copyright header synchronizer.   *)
(*                                                                         *)
(* A text is a sequence of tokens.  A token is one character of a class    *)
(* the code distinguishes, or one of the fixed strings the code searches   *)
(* for, taken as a unit:                                                   *)
(*   LF   "\n"                                                             *)
(*   CR   "\r"                                                             *)
(*   FF   a line boundary of str.splitlines() other than "\n" and "\r"     *)
(*        (\v \f \x1c \x1d \x1e \x85 \u2028 \u2029)                        *)
(*   SP   white space of str.strip() that is no line boundary (" ", "\t")  *)
(*   BOM  "\ufeff", the byte-order marker                                  *)
(*   PREFIX  the marker "// Copyright (C)" the first line must start with  *)
(*           ((C) stands for the copyright sign of the source)             *)
(*   COPYRIGHT_HOLDER, COPYRIGHT_SUFFIX, DASH, DOT, a year's digits, and   *)
(*   "x", any other character.                                             *)
(* COPYRIGHT_SUFFIX stands for the suffix text of the source.  Files hold  *)
(* the text as stored on disk; the platform is POSIX (os.linesep = "\n").  *)
(***************************************************************************)
EXTENDS Integers, Sequences, FiniteSets, TLC

VARIABLES
    fs,       \* path -> the file on disk: its stored text, kind and mode
    today,    \* date.today().year
    header,   \* the header line ensure_header is called with
    pc,       \* position of the program
    queue,    \* the paths of swift_files(root) still to be processed
    results,  \* the FileResult of every ensure_header call that returned
    printed,  \* the counts printed
    log,      \* history: the _read_text and _write_text calls, in order
    orig,     \* history: fs at the start
    snap,     \* history: fs at the start of every call that returned
    failed    \* history: the path whose ensure_header raised, 0 if none

vars == <<fs, today, header, pc, queue, results, printed, log, orig, snap, failed>>

----------------------------------------------------------------------------
(* Bounds *)

MaxPieces == 4

MaxRuns == 2

LastYear == 2025

NumFiles == 3

----------------------------------------------------------------------------
(* Tokens and program constants *)

LF == "LF"

CR == "CR"

FF == "FF"

SP == "SP"

BOM == "BOM"

DASH == "-"

DOT == "."

PREFIX == "// Copyright (C)"

COPYRIGHT_BASE_YEAR == 2024

COPYRIGHT_HOLDER == "Yuze Pan"

COPYRIGHT_SUFFIX == "All rights reserved"

Years == COPYRIGHT_BASE_YEAR..LastYear

(* f"{COPYRIGHT_BASE_YEAR}-{date.today().year}" *)
year_range(year) == <<ToString(COPYRIGHT_BASE_YEAR), DASH, ToString(year)>>

(* f"// Copyright (C) {year_range} {COPYRIGHT_HOLDER}. {COPYRIGHT_SUFFIX}" *)
current_header_line(year) ==
    <<PREFIX, SP>> \o year_range(year) \o <<SP, COPYRIGHT_HOLDER, DOT, SP, COPYRIGHT_SUFFIX>>

----------------------------------------------------------------------------
(* String primitives of the Python runtime, as the code uses them *)

(* characters str.splitlines() breaks a line at *)
LineBoundaries == {LF, CR, FF}

(* characters str.strip() removes *)
Whitespace == {SP, LF, CR, FF}

startswith(s, p) == Len(s) >= Len(p) /\ SubSeq(s, 1, Len(p)) = p

endswith(s, p) == Len(s) >= Len(p) /\ SubSeq(s, Len(s) - Len(p) + 1, Len(s)) = p

(* needle in s *)
contains(s, needle) ==
    \E i \in 1..(Len(s) - Len(needle) + 1) : SubSeq(s, i, i + Len(needle) - 1) = needle

RECURSIVE lstrip(_)
lstrip(s) == IF s # <<>> /\ Head(s) \in Whitespace THEN lstrip(Tail(s)) ELSE s

RECURSIVE rstrip(_)
rstrip(s) ==
    IF s # <<>> /\ s[Len(s)] \in Whitespace THEN rstrip(SubSeq(s, 1, Len(s) - 1)) ELSE s

strip(s) == rstrip(lstrip(s))

RECURSIVE splitlines_from(_, _, _, _)
splitlines_from(s, i, cur, acc) ==
    IF i > Len(s)
    THEN IF cur # <<>> THEN Append(acc, cur) ELSE acc
    ELSE IF s[i] \in LineBoundaries
         THEN IF s[i] = CR /\ i < Len(s) /\ s[i + 1] = LF
              THEN splitlines_from(s, i + 2, <<>>, Append(acc, cur))
              ELSE splitlines_from(s, i + 1, <<>>, Append(acc, cur))
         ELSE splitlines_from(s, i + 1, Append(cur, s[i]), acc)

(* str.splitlines(): the lines without their boundaries; no last empty line *)
splitlines(s) == splitlines_from(s, 1, <<>>, <<>>)

RECURSIVE join(_, _)
join(sep, lines) ==
    IF lines = <<>> THEN <<>>
    ELSE IF Len(lines) = 1 THEN lines[1]
    ELSE lines[1] \o sep \o join(sep, Tail(lines))

RECURSIVE universal_newlines(_)
universal_newlines(s) ==
    IF s = <<>> THEN <<>>
    ELSE IF Head(s) = CR
         THEN IF Len(s) >= 2 /\ s[2] = LF
              THEN <<LF>> \o universal_newlines(SubSeq(s, 3, Len(s)))
              ELSE <<LF>> \o universal_newlines(Tail(s))
         ELSE <<Head(s)>> \o universal_newlines(Tail(s))

(* path.read_text(encoding="utf-8"): text mode, newline=None, so "\r\n" and
   "\r" are read as "\n" *)
_read_text(stored) == universal_newlines(stored)

(* path.write_text(content, encoding="utf-8"): "\n" is written as os.linesep,
   which is "\n" *)
_write_text(content) == content

----------------------------------------------------------------------------
(* ensure_header *)

(* lines and lines[0].strip().startswith("// Copyright (C)")
         and COPYRIGHT_HOLDER in lines[0] *)
has_header(lines) ==
    /\ lines # <<>>
    /\ startswith(strip(lines[1]), <<PREFIX>>)
    /\ contains(lines[1], <<COPYRIGHT_HOLDER>>)

is_current_keepends(line, hdr) == strip(line) = hdr \o <<LF>>

(* lines[0].strip() == header *)
is_current(line, hdr) == strip(line) = hdr

replace_text_nobom(bom, hdr, lines, text) ==
    LET joined == join(<<LF>>, <<hdr>> \o Tail(lines))
    IN  IF endswith(text, <<LF>>) THEN joined \o <<LF>> ELSE joined

(* lines[0] = header; joined = "\n".join(lines);
   if text.endswith("\n"): joined += "\n"; bom + joined *)
replace_text(bom, hdr, lines, text) ==
    LET joined == join(<<LF>>, <<hdr>> \o Tail(lines))
    IN  bom \o (IF endswith(text, <<LF>>) THEN joined \o <<LF>> ELSE joined)

prepend_text_noblank(bom, hdr, text) == bom \o hdr \o text

(* f"{bom}{header}\n\n{text}" *)
prepend_text(bom, hdr, text) == bom \o hdr \o <<LF, LF>> \o text

(* The result of ensure_header on a file storing `stored`: the FileResult's
   changed flag, whether _write_text was called, and what the file stores
   afterwards. *)
ensure_header(stored, hdr) ==
    LET text0 == _read_text(stored)
        hasBom == startswith(text0, <<BOM>>)
        bom == IF hasBom THEN <<BOM>> ELSE <<>>
        text == IF hasBom THEN Tail(text0) ELSE text0
        lines == splitlines(text)
    IN  IF has_header(lines)
        THEN IF is_current(lines[1], hdr)
             THEN [changed |-> FALSE, wrote |-> FALSE, content |-> stored,
                   branch |-> "unchanged"]
             ELSE [changed |-> TRUE, wrote |-> TRUE,
                   content |-> _write_text(replace_text(bom, hdr, lines, text)),
                   branch |-> "replaced"]
        ELSE [changed |-> TRUE, wrote |-> TRUE,
              content |-> _write_text(prepend_text(bom, hdr, text)),
              branch |-> "prepended"]

----------------------------------------------------------------------------
(* Files *)

Paths == 1..NumFiles

Pieces ==
    {current_header_line(y) : y \in Years}
        \cup {<<PREFIX>>, <<COPYRIGHT_HOLDER>>, <<"x">>, <<SP>>, <<LF>>, <<CR>>, <<FF>>, <<BOM>>}

RECURSIVE Concat(_)
Concat(ps) == IF ps = <<>> THEN <<>> ELSE Head(ps) \o Concat(Tail(ps))

(* the texts the files of a tree hold in a run of main *)
TreeContents ==
    {<<>>, <<"x", LF>>} \cup {current_header_line(y) \o <<LF, "x">> : y \in Years}

NewFile(content, kind, mode) == [content |-> content, kind |-> kind, mode |-> mode]

----------------------------------------------------------------------------
(* One file, ensure_header called on it repeatedly with one header.  The file
   stores any text made of at most MaxPieces pieces. *)

Init ==
    /\ today \in Years
    /\ header = current_header_line(today)
    /\ \E k \in 0..MaxPieces : \E ps \in [1..k -> Pieces] :
           fs = [p \in {1} |-> NewFile(Concat(ps), "swift", "ok")]
    /\ orig = fs
    /\ pc = "call"
    /\ queue = <<1>>
    /\ results = <<>>
    /\ printed = <<>>
    /\ log = <<>>
    /\ snap = <<>>
    /\ failed = 0

(* the events of one ensure_header call on path p that does not fail *)
Events(p, r, k) ==
    IF r.wrote
    THEN <<[op |-> "read", path |-> p, call |-> k], [op |-> "write", path |-> p, call |-> k]>>
    ELSE <<[op |-> "read", path |-> p, call |-> k]>>

CallEnsureHeader ==
    /\ pc = "call"
    /\ Len(results) < MaxRuns
    /\ LET p == Head(queue)
           r == ensure_header(fs[p].content, header)
       IN  /\ fs' = [fs EXCEPT ![p].content = r.content]
           /\ results' = Append(results, [path |-> p, changed |-> r.changed])
           /\ log' = log \o Events(p, r, Len(results) + 1)
           /\ snap' = Append(snap, fs)
    /\ UNCHANGED <<today, header, pc, queue, printed, orig, failed>>

Next == CallEnsureHeader

Spec == Init /\ [][Next]_vars

----------------------------------------------------------------------------
(* main over a directory tree.  A path is a number; the order of the numbers
   is the order of the paths.  kind: "swift" is a file under the root whose
   name matches *.swift, "other" a file under the root whose name does not,
   "outside" a *.swift file that is not under the root.  mode: "unreadable"
   makes _read_text raise, "unwritable" makes _write_text raise when it opens
   the file. *)

Kinds == {"swift", "other", "outside"}

Modes == {"ok", "unreadable", "unwritable"}

RECURSIVE sorted(_)
sorted(S) ==
    IF S = {} THEN <<>>
    ELSE LET m == CHOOSE x \in S : \A y \in S : x <= y
         IN  <<m>> \o sorted(S \ {m})

RECURSIVE reverse_sorted(_)
reverse_sorted(S) ==
    IF S = {} THEN <<>>
    ELSE LET m == CHOOSE x \in S : \A y \in S : x >= y
         IN  <<m>> \o reverse_sorted(S \ {m})

swift_files_unsorted(tree) == reverse_sorted({p \in DOMAIN tree : tree[p].kind = "swift"})

swift_files_any_name(tree) == sorted({p \in DOMAIN tree : tree[p].kind # "outside"})

(* sorted(root.rglob("*.swift")) *)
swift_files(tree) == sorted({p \in DOMAIN tree : tree[p].kind = "swift"})

count_all(rs) == Len(rs)

(* len([r for r in results if r.changed]) *)
count_changed(rs) == Cardinality({i \in 1..Len(rs) : rs[i].changed})

InitMain ==
    /\ today \in Years
    /\ header = <<>>
    /\ fs \in [Paths -> {NewFile(c, k, m) : c \in TreeContents, k \in Kinds, m \in Modes}]
    /\ \A p \in Paths : fs[p].kind # "swift" => fs[p].mode = "ok"
    /\ orig = fs
    /\ pc = "start"
    /\ queue = <<>>
    /\ results = <<>>
    /\ printed = <<>>
    /\ log = <<>>
    /\ snap = <<>>
    /\ failed = 0

(* main, up to the first file: header = current_header_line(); the sorted
   list of the matching files is built before the first ensure_header *)
MainStart ==
    /\ pc = "start"
    /\ header' = current_header_line(today)
    /\ queue' = swift_files(fs)
    /\ pc' = "files"
    /\ UNCHANGED <<fs, today, results, printed, log, orig, snap, failed>>

(* ensure_header(path, header) returns for the next path of the list *)
MainFile ==
    /\ pc = "files"
    /\ queue # <<>>
    /\ LET p == Head(queue)
           r == ensure_header(fs[p].content, header)
       IN  /\ fs[p].mode # "unreadable"
           /\ r.wrote => fs[p].mode # "unwritable"
           /\ fs' = [fs EXCEPT ![p].content = r.content]
           /\ results' = Append(results, [path |-> p, changed |-> r.changed])
           /\ log' = log \o Events(p, r, Len(results) + 1)
           /\ snap' = Append(snap, fs)
    /\ queue' = Tail(queue)
    /\ UNCHANGED <<today, header, pc, printed, orig, failed>>

(* ensure_header(path, header) raises for the next path of the list: the
   exception leaves main *)
MainRaise ==
    /\ pc = "files"
    /\ queue # <<>>
    /\ LET p == Head(queue)
           r == ensure_header(fs[p].content, header)
           k == Len(results) + 1
       IN  /\ \/ /\ fs[p].mode = "unreadable"
                 /\ log' = Append(log, [op |-> "read_error", path |-> p, call |-> k])
              \/ /\ fs[p].mode = "unwritable"
                 /\ r.wrote
                 /\ log' = log \o <<[op |-> "read", path |-> p, call |-> k],
                                    [op |-> "write_error", path |-> p, call |-> k]>>
           /\ failed' = p
    /\ pc' = "aborted"
    /\ UNCHANGED <<fs, today, header, queue, results, printed, orig, snap>>

(* print(..., len(changed)) *)
MainPrint ==
    /\ pc = "files"
    /\ queue = <<>>
    /\ printed' = Append(printed, count_changed(results))
    /\ pc' = "done"
    /\ UNCHANGED <<fs, today, header, queue, results, log, orig, snap, failed>>

NextMain == MainStart \/ MainFile \/ MainRaise \/ MainPrint

SpecMain == InitMain /\ [][NextMain]_vars

----------------------------------------------------------------------------
(* Vocabulary of the properties.  Before(k) and After(k) are what the file
   of the k-th ensure_header call stores before and after the call. *)

Calls == 1..Len(results)

PathOf(k) == results[k].path

Before(k) == snap[k][PathOf(k)].content

After(k) == IF k < Len(snap) THEN snap[k + 1][PathOf(k)].content ELSE fs[PathOf(k)].content

Wrote(k) == \E i \in 1..Len(log) : log[i].op = "write" /\ log[i].call = k

Marker(s) == IF startswith(s, <<BOM>>) THEN <<BOM>> ELSE <<>>

(* the stored text after the optional byte-order marker *)
Body(s) == IF startswith(s, <<BOM>>) THEN Tail(s) ELSE s

(* the position of the first line boundary of s, Len(s) + 1 if it has none *)
FirstBoundary(s) ==
    IF \E i \in 1..Len(s) : s[i] \in LineBoundaries
    THEN CHOOSE i \in 1..Len(s) :
             s[i] \in LineBoundaries /\ \A j \in 1..(i - 1) : s[j] \notin LineBoundaries
    ELSE Len(s) + 1

FirstLine(s) == SubSeq(Body(s), 1, FirstBoundary(Body(s)) - 1)

(* everything after the first line: its boundary, the other lines and theirs *)
AfterFirstLine(s) == SubSeq(Body(s), FirstBoundary(Body(s)), Len(Body(s)))

HeaderLike(line) ==
    startswith(strip(line), <<PREFIX>>) /\ contains(line, <<COPYRIGHT_HOLDER>>)

NoHeader(s) == Body(s) = <<>> \/ ~HeaderLike(FirstLine(s))

Stale(s, hdr) == HeaderLike(FirstLine(s)) /\ FirstLine(s) # hdr

EndsWithNewline(s) == s # <<>> /\ s[Len(s)] \in {LF, CR}

RECURSIVE TrailingNewlines(_)
TrailingNewlines(s) ==
    IF s = <<>> THEN 0
    ELSE IF endswith(s, <<CR, LF>>) THEN 1 + TrailingNewlines(SubSeq(s, 1, Len(s) - 2))
    ELSE IF s[Len(s)] \in {LF, CR} THEN 1 + TrailingNewlines(SubSeq(s, 1, Len(s) - 1))
    ELSE 0

(* the empty lines at the end of s: the newlines after the one that ends the
   last line with text *)
TrailingEmptyLines(s) == IF TrailingNewlines(s) = 0 THEN 0 ELSE TrailingNewlines(s) - 1

CountBOM(s) == Cardinality({i \in 1..Len(s) : s[i] = BOM})

----------------------------------------------------------------------------
(* C1: every ensure_header call on a file after the first one, with the same
   header, leaves the file as the call before it left it, reports
   changed = false and does not write. *)
C1_Idempotent ==
    \A k \in Calls :
        k >= 2 => /\ After(k) = Before(k)
                  /\ ~results[k].changed
                  /\ ~Wrote(k)

(* a second call has returned on a file with a marker and a stale header
   that the first call rewrote *)
C1_Witness ==
    /\ Len(results) >= 2
    /\ results[1].changed
    /\ Before(1) # After(1)
    /\ startswith(Before(1), <<BOM>>)
    /\ Stale(Before(1), header)

(* C2, as claimed: a call on a file with no header line leaves the optional
   byte-order marker, the header, one blank line and then the original content
   unchanged, and reports changed = true. *)
C2_PrependKeepsContent ==
    \A k \in Calls :
        NoHeader(Before(k)) =>
            /\ After(k) = Marker(Before(k)) \o header \o <<LF, LF>> \o Body(Before(k))
            /\ results[k].changed

(* C3, as claimed: a call on a file with a stale header leaves everything
   after the first line, line boundaries included, as it was. *)
C3_ReplaceKeepsRest ==
    \A k \in Calls :
        Stale(Before(k), header) => AfterFirstLine(After(k)) = AfterFirstLine(Before(k))

(* C4: a call on a file whose first line is the header reports
   changed = false and does not write, and every call that writes leaves the
   file different from what it was. *)
C4_WriteOnlyOnChange ==
    \A k \in Calls :
        /\ FirstLine(Before(k)) = header =>
               ~results[k].changed /\ ~Wrote(k) /\ After(k) = Before(k)
        /\ Wrote(k) => After(k) # Before(k)
        /\ ~Wrote(k) => After(k) = Before(k)

(* the first call rewrote the file, the second found the header in place *)
C4_Witness ==
    /\ Len(results) >= 2
    /\ Wrote(1)
    /\ FirstLine(Before(2)) = header
    /\ ~results[2].changed

(* C5, as claimed, on the path that replaces a stale header: the rewritten
   file ends with a newline if and only if the file ended with one, and has
   as many empty lines at its end as before. *)
C5_TrailingNewlineKept ==
    \A k \in Calls :
        (results[k].changed /\ Stale(Before(k), header)) =>
            /\ EndsWithNewline(After(k)) <=> EndsWithNewline(Before(k))
            /\ TrailingEmptyLines(After(k)) = TrailingEmptyLines(Before(k))

(* C6: after a call the file starts with a byte-order marker if and only if
   it did before; in a rewritten file the header follows the optional marker
   at once, and the file holds no more markers than before. *)
C6_MarkerKept ==
    \A k \in Calls :
        /\ startswith(After(k), <<BOM>>) <=> startswith(Before(k), <<BOM>>)
        /\ results[k].changed => startswith(Body(After(k)), header)
        /\ CountBOM(After(k)) <= CountBOM(Before(k))

(* calls have replaced a stale header behind a marker, and have prepended the
   header to a file with a marker *)
C6_Witness ==
    /\ Len(results) >= 1
    /\ results[1].changed
    /\ startswith(Before(1), <<BOM>>)
    /\ Stale(Before(1), header)
    /\ startswith(After(1), <<BOM>> \o header)
    /\ Len(After(1)) > Len(header) + 1

(* C10, as claimed: after a call the first line of the file, after the
   optional marker, is the header, character for character. *)
C10_FirstLineIsHeader ==
    \A k \in Calls : FirstLine(After(k)) = header

(* C10, amended: after a call the first line of the file, after the optional
   marker and with the white space around it removed, is the header; in a
   file the call rewrote it is the header, character for character. *)
C10_FirstLineStripsToHeader ==
    \A k \in Calls :
        /\ strip(FirstLine(After(k))) = header
        /\ results[k].changed => FirstLine(After(k)) = header

(* a call has left alone a file whose header has white space around it *)
C10_Witness ==
    \E k \in Calls :
        /\ ~results[k].changed
        /\ FirstLine(After(k)) # header
        /\ strip(FirstLine(After(k))) = header

----------------------------------------------------------------------------
(* Properties of main *)

Discovered == {p \in DOMAIN orig : orig[p].kind = "swift"}

Touched(p) == \E i \in 1..Len(log) : log[i].path = p

Modified == {p \in Discovered : fs[p].content # orig[p].content}

(* C7: a file whose name does not match *.swift, or that is not under the
   root, is never read or written, and stores what it stored at the start. *)
C7_OthersUntouched ==
    \A p \in DOMAIN fs :
        orig[p].kind # "swift" => ~Touched(p) /\ fs[p] = orig[p]

(* main has rewritten a matching file, next to a file of another name and a
   *.swift file outside the root, both with a stale or missing header *)
C7_Witness ==
    /\ pc = "done"
    /\ \E p \in Paths : orig[p].kind = "swift" /\ fs[p].content # orig[p].content
    /\ \E p \in Paths : orig[p].kind = "other" /\ fs[p].content # <<>>
                          /\ ensure_header(fs[p].content, header).changed
    /\ \E p \in Paths : orig[p].kind = "outside"
                          /\ ensure_header(fs[p].content, header).changed

(* C8: main prints at most one line; when it completes it has printed exactly
   one, with the number of discovered files that store something else than
   at the start. *)
C8_CountIsModified ==
    /\ Len(printed) <= 1
    /\ pc = "done" => Len(printed) = 1 /\ printed[1] = Cardinality(Modified)

(* main completed over a tree with a file it rewrote and a file it left *)
C8_Witness ==
    /\ pc = "done"
    /\ Cardinality(Discovered) >= 2
    /\ printed = <<1>>
    /\ Modified # {} /\ Modified # Discovered

(* the reads and writes so far, in order, are those of ensure_header on the
   first paths of the sorted list, one path after the other *)
InSortedOrder ==
    /\ \A i, j \in 1..Len(log) : i < j => log[i].path <= log[j].path
    /\ \A p \in Discovered : \A q \in Discovered : (q < p /\ Touched(p)) => Touched(q)

(* C9: the files are read and written one after the other in sorted order;
   when a read or a write fails the run is over: the files sorted before the
   failing one store what ensure_header left, the files sorted after it are
   never read or written, and nothing is printed. *)
C9_AbortAtFailure ==
    /\ InSortedOrder
    /\ pc = "aborted" =>
           /\ printed = <<>>
           /\ failed \in Discovered
           /\ \A p \in Discovered :
                  /\ p < failed => fs[p].content = ensure_header(orig[p].content, header).content
                  /\ p > failed => ~Touched(p) /\ fs[p] = orig[p]

(* the run stopped at the second of three matching files, after it rewrote
   the first; the third needs the header *)
C9_Witness ==
    /\ pc = "aborted"
    /\ Cardinality(Discovered) >= 3
    /\ \E p \in Discovered : p < failed /\ fs[p].content # orig[p].content
    /\ \E p \in Discovered : p > failed /\ ensure_header(fs[p].content, header).changed

====
